---- MODULE Spec2Model ----
(***************************************************************************)
(* Model of the Concordium auction contract of src/src/lib.rs: a registry  *)
(* of auctions (State.auctions, State.commission_recipient) and the        *)
(* receive functions create_auction, onReceivingCIS2, bid, view_auctions,  *)
(* get_auction and finalize.                                               *)
(*                                                                         *)
(* A receive function is modelled by an operator of the same name that     *)
(* maps the registry and the call's inputs to the call's outcome: the      *)
(* returned result, the registry the call leaves behind, and the currency  *)
(* transfers, token transfers and events the call issued, in order.  The   *)
(* outcome of every external transfer (host.invoke_transfer,               *)
(* Cis2Client::transfer) is an input chosen by the environment.  A call    *)
(* that returns Err or traps leaves the registry as it was before the      *)
(* call (the registry is only written to storage when the receive          *)
(* function returns Ok).                                                   *)
(***************************************************************************)
EXTENDS Integers, Sequences, FiniteSets, TLC

\* ------------------------------------------------------------------ bounds
\* Spec: up to MaxAuctions auctions, small amounts
MaxAuctions == 2
MaxTime == 2
MaxAmount == 1
\* SpecScenario: auctions of one seller with the amounts of the worked
\* scenario (initial price 100, bids of 150 and 200) and a bid of 155, whose
\* tenth is not an integer
ScenarioAuctions == 1
\* SpecLedger: the auctions of one seller, with the ledger kept
LedgerAuctions == 2

\* ------------------------------------------------------- values of the model
Account(a) == [kind |-> "Account", addr |-> a]
Contract(c) == [kind |-> "Contract", addr |-> c]
Contracts == {"c1"}
Addresses(accounts) == {Account(a) : a \in accounts} \cup {Contract(c) : c \in Contracts}
SelfAddress == "auction"
\* the account that deploys the contract
init_origin == "a1"
None == "None"
Malformed == [malformed |-> TRUE]

\* AuctionState
NotSoldYet == [tag |-> "NotSoldYet"]
Sold(winner) == [tag |-> "Sold", winner |-> winner]

\* NewAuctionParameter, BidParameter
NewAuctionParameters(ends, prices) ==
  [item : {"item"}, end : ends, initial_price : prices,
   token_contract : {"cis2"}, token_id : {0}, token_amount : {1}]
BidParameters(n) == [auction_id : 0..n]

\* Spec
Senders == Addresses({"a1", "a2"})
Amounts == 0..MaxAmount
Parameters == NewAuctionParameters({1}, {0})
\* SpecLedger
LedgerSellers == {Account("a2")}
LedgerBidders == {Account("a1")}
LedgerAmounts == {10}
\* SpecScenario
ScenarioSellers == Addresses({"a2"})
ScenarioSenders == Addresses({"a1", "a2", "a3"})
ScenarioAmounts == {100, 150, 155, 200}
ScenarioParameters == NewAuctionParameters({1}, {100})

\* ledger: the currency and the tokens the contract holds, and per auction
\* what came in and went out; kept only by the specifications that start from
\* InitLedger, where it also decides which transfers the host can carry out
VARIABLES auctions, commission_recipient, slot_time, last, ledger
vars == <<auctions, commission_recipient, slot_time, last, ledger>>

\* ------------------------------------------------------- outcome of a call
NoSender == [kind |-> "None", addr |-> None]
NoCall == [op |-> "init", parameter |-> Malformed, sender |-> NoSender, amount |-> 0,
           result |-> "Ok", returned |-> None, ccd |-> <<>>, tokens |-> <<>>, events |-> <<>>]

Outcome(result, reg, ccd, tokens, events) ==
  [result |-> result, returned |-> None, auctions |-> reg,
   ccd |-> ccd, tokens |-> tokens, events |-> events]

\* return Err(e) before anything was written or issued
Reject(reg, e) == Outcome(e, reg, <<>>, <<>>, <<>>)

CcdTransfer(to, amount, ok) == [to |-> to, amount |-> amount, ok |-> ok]
TokenTransfer(from, to, amount, ok) == [from |-> from, to |-> to, amount |-> amount, ok |-> ok]
Register(id) == [event |-> "Register", auction_id |-> id]
TransferLog(ok) == [event |-> "TransferResult", ok |-> ok]

\* Vec::get(id as usize): the auction at zero-based position id
HasAuction(reg, id) == id < Len(reg)
Get(reg, id) == reg[id + 1]

\* --------------------------------------------------------- create_auction
NewAuction(parameter, owner) ==
  [auction_state |-> NotSoldYet,
   highest_bidder |-> None,
   initial_price |-> parameter.initial_price,
   highest_bid |-> 0,
   item |-> parameter.item,
   end |-> parameter.end,
   owner |-> owner,
   token_contract |-> parameter.token_contract,
   token_id |-> parameter.token_id,
   token_amount |-> parameter.token_amount]

\* mutant: the length after the push taken as the id
NewAuctionId_Len(pushed) == Len(pushed)

\* let id = (state.auctions.len() - 1) as u32, after the push
NewAuctionId(pushed) == Len(pushed) - 1

\* mutant: the token transfer issued before the sender is checked
create_auction_TransferFirst(reg, sender, parameter, tokenOk) ==
  IF parameter = Malformed THEN Reject(reg, "ParameterParsingError")
  ELSE LET owner == sender.addr
           transfer == TokenTransfer(owner, SelfAddress, parameter.token_amount, tokenOk)
           pushed == Append(reg, NewAuction(parameter, owner))
           id == NewAuctionId(pushed)
       IN  IF sender.kind # "Account"
           THEN Outcome("OnlyAccount", reg, <<>>, <<transfer>>, <<>>)
           ELSE Outcome("Ok", pushed, <<>>, <<transfer>>, <<Register(id)>>)

\* mutant: the commented-out error return restored
create_auction_TransferChecked(reg, sender, parameter, tokenOk) ==
  IF parameter = Malformed THEN Reject(reg, "ParameterParsingError")
  ELSE IF sender.kind # "Account" THEN Reject(reg, "OnlyAccount")
  ELSE LET owner == sender.addr
           transfer == TokenTransfer(owner, SelfAddress, parameter.token_amount, tokenOk)
           pushed == Append(reg, NewAuction(parameter, owner))
           id == NewAuctionId(pushed)
       IN  IF ~tokenOk
           THEN Outcome("TransferFailed", reg, <<>>, <<transfer>>, <<>>)
           ELSE Outcome("Ok", pushed, <<>>, <<transfer>>, <<Register(id)>>)

create_auction(reg, sender, parameter, tokenOk) ==
  IF parameter = Malformed THEN Reject(reg, "ParameterParsingError")
  ELSE IF sender.kind # "Account" THEN Reject(reg, "OnlyAccount")
  ELSE LET owner == sender.addr
           transfer == TokenTransfer(owner, SelfAddress, parameter.token_amount, tokenOk)
           pushed == Append(reg, NewAuction(parameter, owner))
           id == NewAuctionId(pushed)
       IN  Outcome("Ok", pushed, <<>>, <<transfer>>, <<Register(id)>>)

\* -------------------------------------------------------- onReceivingCIS2
\* mutant: the commented-out body restored, the received amount (here 0)
\* assigned to the token_amount of the auctions of the token
on_receiving_cis2_Assigns(reg) ==
  Outcome("Ok", [i \in 1..Len(reg) |-> [reg[i] EXCEPT !.token_amount = 0]],
          <<>>, <<>>, <<>>)

on_receiving_cis2(reg) == Outcome("Ok", reg, <<>>, <<>>, <<>>)

\* -------------------------------------------------------------------- bid
\* mutant: the deadline check dropped
BidTimeOk_Unchecked(t, end) == TRUE

\* mutant: the deadline itself excluded
BidTimeOk_Strict(t, end) == t < end

\* ensure!(slot_time <= auction.end, BidTooLate)
BidTimeOk(t, end) == t <= end

\* mutant: the owner check dropped
NotOwner_Unchecked(auction, sender_address) == TRUE

\* ensure!(auction.owner != sender_address, OnlyNotOwner)
NotOwner(auction, sender_address) == auction.owner # sender_address

\* mutant: a bid equal to the threshold accepted
BidAmountOk_AllowsEqual(auction, amount) ==
  IF auction.highest_bid = 0
  THEN amount >= auction.initial_price
  ELSE amount >= auction.highest_bid

\* the amount check: against initial_price while highest_bid is zero
BidAmountOk(auction, amount) ==
  IF auction.highest_bid = 0
  THEN amount > auction.initial_price
  ELSE amount > auction.highest_bid

\* auction.highest_bid = amount; auction.highest_bidder = Some(sender_address)
PlaceBid(auction, amount, sender_address) ==
  [auction EXCEPT !.highest_bid = amount, !.highest_bidder = sender_address]

\* mutant: the initial price refunded instead of the previous bid
Refund_OfInitialPrice(auction, refundOk) ==
  IF auction.highest_bidder # None
  THEN <<CcdTransfer(auction.highest_bidder, auction.initial_price, refundOk)>>
  ELSE <<>>

\* the refund of the previous highest bidder, if any (auction: before the bid)
Refund(auction, refundOk) ==
  IF auction.highest_bidder # None
  THEN <<CcdTransfer(auction.highest_bidder, auction.highest_bid, refundOk)>>
  ELSE <<>>

auction_bid(reg, sender, parameter, amount, t, refundOk) ==
  IF parameter = Malformed THEN Reject(reg, "ParameterParsingError")
  ELSE IF ~HasAuction(reg, parameter.auction_id) THEN Reject(reg, "AuctionNotFound")
  ELSE LET id == parameter.auction_id
           auction == Get(reg, id)
       IN
  IF auction.auction_state # NotSoldYet THEN Reject(reg, "AuctionAlreadyFinalized")
  ELSE IF ~BidTimeOk(t, auction.end) THEN Reject(reg, "BidTooLate")
  ELSE IF sender.kind = "Contract" THEN Reject(reg, "OnlyAccount")
  ELSE IF ~NotOwner(auction, sender.addr) THEN Reject(reg, "OnlyNotOwner")
  ELSE IF ~BidAmountOk(auction, amount) THEN Reject(reg, "BidBelowCurrentBid")
  ELSE LET written == [reg EXCEPT ![id + 1] = PlaceBid(auction, amount, sender.addr)]
           refund == Refund(auction, refundOk)
       IN  IF refund # <<>> /\ ~refundOk
           THEN Outcome("Abort", reg, refund, <<>>, <<>>)     \* unwrap_abort traps
           ELSE Outcome("Ok", written, refund, <<>>, <<>>)

\* ------------------------------------------------ view_auctions, get_auction
view_auctions(reg) == [Outcome("Ok", reg, <<>>, <<>>, <<>>) EXCEPT !.returned = reg]

get_auction(reg, parameter) ==
  IF parameter = Malformed THEN Reject(reg, "ParameterParsingError")
  ELSE IF ~HasAuction(reg, parameter.auction_id) THEN Reject(reg, "AuctionNotFound")
  ELSE [Outcome("Ok", reg, <<>>, <<>>, <<>>) EXCEPT !.returned = Get(reg, parameter.auction_id)]

\* --------------------------------------------------------------- finalize
\* mutant: finalize opened one slot too late
FinalizeTimeOk_Late(t, end) == t > end + 1

\* ensure!(slot_time > auction.end, AuctionStillActive)
FinalizeTimeOk(t, end) == t > end

\* mutant: the tenth rounded up
Commission_RoundsUp(highest_bid) == (highest_bid + 9) \div 10

\* let commission = auction.highest_bid.micro_ccd / 10
Commission(highest_bid) == highest_bid \div 10

\* let owner_amount = auction.highest_bid - commission_amount
OwnerAmount(highest_bid) == highest_bid - Commission(highest_bid)

\* the assignment auction_state = Sold(winning_bidder) is commented out and
\* finalize works on a clone: nothing is written to the registry
MarkSold(reg, id, winning_bidder) == reg

\* mutant: the winner branch's receiver used in both branches
TokenOut_ToBidder(auction, tokenOk) ==
  TokenTransfer(SelfAddress, auction.highest_bidder, auction.token_amount, tokenOk)

\* the token transfer of finalize: to the winner, or back to the owner
TokenOut(auction, tokenOk) ==
  IF auction.highest_bidder # None
  THEN TokenTransfer(SelfAddress, auction.highest_bidder, auction.token_amount, tokenOk)
  ELSE TokenTransfer(SelfAddress, auction.owner, auction.token_amount, tokenOk)

\* mutant: the result of the owner's payout ignored
auction_finalize_OwnerUnchecked(reg, recipient, parameter, t, tokenOk, commissionOk, ownerOk) ==
  IF parameter = Malformed THEN Reject(reg, "ParameterParsingError")
  ELSE IF ~HasAuction(reg, parameter.auction_id) THEN Reject(reg, "AuctionNotFound")
  ELSE LET id == parameter.auction_id
           auction == Get(reg, id)
           tokens == <<TokenOut(auction, tokenOk)>>
           events == <<TransferLog(tokenOk)>>
       IN
  IF auction.auction_state # NotSoldYet THEN Reject(reg, "AuctionAlreadyFinalized")
  ELSE IF ~FinalizeTimeOk(t, auction.end) THEN Reject(reg, "AuctionStillActive")
  ELSE IF auction.highest_bidder # None
  THEN LET commission == CcdTransfer(recipient, Commission(auction.highest_bid), commissionOk)
           owner == CcdTransfer(auction.owner, OwnerAmount(auction.highest_bid), ownerOk)
       IN  IF ~commissionOk
           THEN Outcome("TransferFailed", reg, <<commission>>, tokens, events)
           ELSE Outcome("Ok", MarkSold(reg, id, auction.highest_bidder),
                        <<commission, owner>>, tokens, events)
  ELSE Outcome("Ok", reg, <<>>, tokens, events)

auction_finalize(reg, recipient, parameter, t, tokenOk, commissionOk, ownerOk) ==
  IF parameter = Malformed THEN Reject(reg, "ParameterParsingError")
  ELSE IF ~HasAuction(reg, parameter.auction_id) THEN Reject(reg, "AuctionNotFound")
  ELSE LET id == parameter.auction_id
           auction == Get(reg, id)
           tokens == <<TokenOut(auction, tokenOk)>>
           events == <<TransferLog(tokenOk)>>
       IN
  IF auction.auction_state # NotSoldYet THEN Reject(reg, "AuctionAlreadyFinalized")
  ELSE IF ~FinalizeTimeOk(t, auction.end) THEN Reject(reg, "AuctionStillActive")
  ELSE IF auction.highest_bidder # None
  THEN LET commission == CcdTransfer(recipient, Commission(auction.highest_bid), commissionOk)
           owner == CcdTransfer(auction.owner, OwnerAmount(auction.highest_bid), ownerOk)
       IN  IF ~commissionOk
           THEN Outcome("TransferFailed", reg, <<commission>>, tokens, events)
           ELSE IF ~ownerOk
           THEN Outcome("TransferFailed", reg, <<commission, owner>>, tokens, events)
           ELSE Outcome("Ok", MarkSold(reg, id, auction.highest_bidder),
                        <<commission, owner>>, tokens, events)
  ELSE Outcome("Ok", reg, <<>>, tokens, events)

\* ----------------------------------------------------------------- ledger
NoLedger == [tracked |-> FALSE]
EmptyLedger ==
  [tracked |-> TRUE,
   balance |-> 0,        \* the contract's currency balance
   tokens |-> 0,         \* the tokens the contract holds
   attached |-> <<>>,    \* per auction: currency attached to its accepted bids
   paid |-> <<>>,        \* per auction: currency paid out (refunds, payouts)
   escrowed |-> <<>>,    \* per auction: tokens transferred in at creation
   released |-> <<>>]    \* per auction: tokens transferred out by finalize

RECURSIVE SumOk(_)
\* the total of the transfers of a sequence that were carried out
SumOk(transfers) ==
  IF transfers = <<>> THEN 0
  ELSE (IF Head(transfers).ok THEN Head(transfers).amount ELSE 0) + SumOk(Tail(transfers))

\* the host carries out a transfer only from what the contract holds: the
\* attached amount of a payable call is part of the balance while it runs
Solvent(book, op, amount, out) ==
  IF ~book.tracked THEN TRUE
  ELSE /\ \A k \in 1..Len(out.ccd) :
            out.ccd[k].ok =>
              out.ccd[k].amount <= book.balance + amount - SumOk(SubSeq(out.ccd, 1, k - 1))
       /\ \A k \in 1..Len(out.tokens) :
            (out.tokens[k].ok /\ out.tokens[k].from = SelfAddress) =>
              out.tokens[k].amount <= book.tokens

\* the ledger after a call: a call that does not return Ok is rolled back as
\* a whole, transfers included
Book(book, op, parameter, amount, out) ==
  IF ~book.tracked \/ out.result # "Ok" THEN book
  ELSE IF op = "create_auction"
  THEN [book EXCEPT !.tokens = @ + SumOk(out.tokens),
                    !.attached = Append(@, 0),
                    !.paid = Append(@, 0),
                    !.escrowed = Append(@, SumOk(out.tokens)),
                    !.released = Append(@, 0)]
  ELSE IF op \in {"bid", "finalize"}
  THEN LET i == parameter.auction_id + 1
       IN  [book EXCEPT !.balance = @ + amount - SumOk(out.ccd),
                        !.tokens = @ - SumOk(out.tokens),
                        !.attached[i] = @ + amount,
                        !.paid[i] = @ + SumOk(out.ccd),
                        !.released[i] = @ + SumOk(out.tokens)]
  ELSE book

\* ---------------------------------------------------------- specification
Init ==
  /\ auctions = <<>>
  /\ commission_recipient = init_origin
  /\ slot_time = 0
  /\ last = NoCall
  /\ ledger = NoLedger

InitLedger ==
  /\ auctions = <<>>
  /\ commission_recipient = init_origin
  /\ slot_time = 0
  /\ last = NoCall
  /\ ledger = EmptyLedger

Call(op, parameter, sender, amount, out) ==
  /\ Solvent(ledger, op, amount, out)
  /\ ledger' = Book(ledger, op, parameter, amount, out)
  /\ auctions' = out.auctions
  /\ last' = [op |-> op, parameter |-> parameter, sender |-> sender, amount |-> amount,
              result |-> out.result, returned |-> out.returned, ccd |-> out.ccd, tokens |-> out.tokens,
              events |-> out.events]
  /\ UNCHANGED <<commission_recipient, slot_time>>

CreateAuction(n, senders, parameters) ==
  /\ Len(auctions) < n
  /\ \E sender \in senders, parameter \in parameters \cup {Malformed},
        tokenOk \in BOOLEAN :
       Call("create_auction", parameter, sender, 0,
            create_auction(auctions, sender, parameter, tokenOk))

OnReceivingCIS2 ==
  Call("onReceivingCIS2", Malformed, NoSender, 0, on_receiving_cis2(auctions))

\* the outcomes the host can give the refund: it is only invoked, and so can
\* only fail, when the auction has a previous bidder
RefundOutcomes(reg, parameter) ==
  IF /\ parameter # Malformed
     /\ HasAuction(reg, parameter.auction_id)
     /\ Get(reg, parameter.auction_id).highest_bidder # None
  THEN BOOLEAN ELSE {TRUE}

\* the outcomes the host can give the two payouts of finalize: the owner is
\* only paid after the commission was
PayoutOutcomes == {<<TRUE, TRUE>>, <<TRUE, FALSE>>, <<FALSE, FALSE>>}

Bid(n, senders, amounts) ==
  \E sender \in senders, parameter \in BidParameters(n) \cup {Malformed},
     amount \in amounts :
   \E refundOk \in RefundOutcomes(auctions, parameter) :
    Call("bid", parameter, sender, amount,
         auction_bid(auctions, sender, parameter, amount, slot_time, refundOk))

ViewAuctions ==
  Call("view_auctions", Malformed, NoSender, 0, view_auctions(auctions))

GetAuction(n) ==
  \E parameter \in BidParameters(n) \cup {Malformed} :
    Call("get_auction", parameter, NoSender, 0, get_auction(auctions, parameter))

Finalize(n) ==
  \E parameter \in BidParameters(n) \cup {Malformed},
     tokenOk \in BOOLEAN, payouts \in PayoutOutcomes :
    Call("finalize", parameter, NoSender, 0,
         auction_finalize(auctions, commission_recipient, parameter, slot_time,
                          tokenOk, payouts[1], payouts[2]))

\* the slot time of the chain advances between calls
Tick ==
  /\ slot_time < MaxTime
  /\ slot_time' = slot_time + 1
  /\ UNCHANGED <<auctions, commission_recipient, last, ledger>>

Next ==
  \/ CreateAuction(MaxAuctions, Senders, Parameters)
  \/ OnReceivingCIS2
  \/ Bid(MaxAuctions, Senders, Amounts)
  \/ ViewAuctions
  \/ GetAuction(MaxAuctions)
  \/ Finalize(MaxAuctions)
  \/ Tick

NextScenario ==
  \/ CreateAuction(ScenarioAuctions, ScenarioSellers, ScenarioParameters)
  \/ OnReceivingCIS2
  \/ Bid(ScenarioAuctions, ScenarioSenders, ScenarioAmounts)
  \/ ViewAuctions
  \/ GetAuction(ScenarioAuctions)
  \/ Finalize(ScenarioAuctions)
  \/ Tick

\* the calls of one seller (a2) and one bidder (a1), with the ledger kept
NextLedger ==
  \/ CreateAuction(LedgerAuctions, LedgerSellers, Parameters)
  \/ OnReceivingCIS2
  \/ Bid(LedgerAuctions, LedgerBidders, LedgerAmounts)
  \/ ViewAuctions
  \/ GetAuction(LedgerAuctions)
  \/ Finalize(LedgerAuctions)
  \/ Tick

\* finalize(i) with every transfer carried out by the host
Settle(i) ==
  Call("finalize", [auction_id |-> i], NoSender, 0,
       auction_finalize(auctions, commission_recipient, [auction_id |-> i], slot_time,
                        TRUE, TRUE, TRUE))

Spec == Init /\ [][Next]_vars
\* time keeps advancing and the finalize of every auction keeps being
\* attempted, with transfers that succeed
SpecFair ==
  /\ Init /\ [][NextLedger]_vars
  /\ WF_vars(Tick)
  /\ \A i \in 0..(LedgerAuctions - 1) : WF_vars(Settle(i))
SpecLedger == InitLedger /\ [][NextLedger]_vars
SpecScenario == Init /\ [][NextScenario]_vars

\* ------------------------------------------------------------ observations
\* a step that is a call of a receive function (Tick alone moves slot_time)
IsCall(op) == slot_time' = slot_time /\ last'.op = op /\ last'.parameter # Malformed
\* the last call was op, on a well-formed parameter
Was(op) == last.op = op /\ last.parameter # Malformed
Succeeded(op) == Was(op) /\ last.result = "Ok"

\* ---------------------------------------------------------------------- C1
\* C1: a finalize that succeeds on an auction with a highest bidder leaves
\* that auction in state Sold(winner) in the registry (so that every later
\* finalize and bid on it fails with AuctionAlreadyFinalized).
C1_FinalizeMarksSold ==
  (Succeeded("finalize") /\ Get(auctions, last.parameter.auction_id).highest_bidder # None)
    => LET auction == Get(auctions, last.parameter.auction_id)
       IN  auction.auction_state = Sold(auction.highest_bidder)

\* ---------------------------------------------------------------------- C2
\* C2: every accepted bid is strictly greater than the highest_bid stored
\* just before it and than initial_price, it becomes the stored highest_bid,
\* and no step ever lowers the highest_bid of an auction.
C2_AcceptedBidsStrictlyIncrease ==
  [][ /\ (IsCall("bid") /\ last'.result = "Ok")
          => LET id == last'.parameter.auction_id
             IN  /\ last'.amount > Get(auctions, id).highest_bid
                 /\ last'.amount > Get(auctions, id).initial_price
                 /\ Get(auctions', id).highest_bid = last'.amount
      /\ \A i \in 1..Len(auctions) : auctions'[i].highest_bid >= auctions[i].highest_bid
    ]_vars

\* a second bid was accepted on an auction (the first one was refunded)
C2_Witness ==
  /\ Succeeded("bid")
  /\ last.ccd # <<>>
  /\ last.amount > last.ccd[1].amount
  /\ last.ccd[1].amount > Get(auctions, last.parameter.auction_id).initial_price

\* ---------------------------------------------------------------------- C3
\* C3: an accepted bid issues exactly one currency transfer, of the previous
\* highest bid to the previous highest bidder, when there was one, and none
\* otherwise; when the refund fails the call aborts and the registry keeps
\* the previous bid.
C3_RefundOfPreviousBidder ==
  [][ IsCall("bid") =>
        /\ last'.tokens = <<>>
        /\ last'.result = "Ok" =>
             LET before == Get(auctions, last'.parameter.auction_id)
             IN  IF before.highest_bidder # None
                 THEN last'.ccd = <<[to |-> before.highest_bidder,
                                     amount |-> before.highest_bid, ok |-> TRUE]>>
                 ELSE last'.ccd = <<>>
        /\ (last'.ccd # <<>> /\ ~last'.ccd[1].ok) =>
             /\ last'.result = "Abort"
             /\ auctions' = auctions
        /\ Len(last'.ccd) <= 1
    ]_vars

\* a bidder outbids itself and is refunded its previous bid
C3_Witness ==
  /\ Succeeded("bid")
  /\ Len(last.ccd) = 1
  /\ last.ccd[1].to = last.sender.addr
  /\ last.ccd[1].amount = 150
  /\ last.amount = 200

C5_TimeGates ==
  [][ /\ (IsCall("bid") /\ HasAuction(auctions, last'.parameter.auction_id))
          => LET end == Get(auctions, last'.parameter.auction_id).end
             IN  /\ last'.result = "BidTooLate" <=> slot_time > end
                 /\ last'.result = "Ok" => slot_time <= end
      /\ (IsCall("finalize") /\ HasAuction(auctions, last'.parameter.auction_id))
          => LET end == Get(auctions, last'.parameter.auction_id).end
             IN  /\ last'.result = "AuctionStillActive" <=> slot_time <= end
                 /\ last'.result = "Ok" => slot_time > end
    ]_vars

\* a finalize at the very deadline is refused
C5_Witness ==
  /\ Was("finalize")
  /\ last.result = "AuctionStillActive"
  /\ slot_time = Get(auctions, last.parameter.auction_id).end

\* ---------------------------------------------------------------------- C6
\* C6 as stated: a bid on an existing auction sent by its owner always fails
\* with OnlyNotOwner.
C6_OwnerBidFailsOnlyNotOwner ==
  (/\ Was("bid")
   /\ HasAuction(auctions, last.parameter.auction_id)
   /\ last.sender = Account(Get(auctions, last.parameter.auction_id).owner))
    => last.result = "OnlyNotOwner"

\* C6 amended: a bid on an existing auction sent by its owner always fails,
\* whatever the amount: with AuctionAlreadyFinalized when the auction is not
\* NotSoldYet, else with BidTooLate when the slot time is after end, else
\* with OnlyNotOwner; and it leaves the registry unchanged.
C6_OwnerBidAlwaysFails ==
  [][ (/\ IsCall("bid")
       /\ HasAuction(auctions, last'.parameter.auction_id)
       /\ last'.sender = Account(Get(auctions, last'.parameter.auction_id).owner))
      => LET auction == Get(auctions, last'.parameter.auction_id)
         IN  /\ last'.result =
                   IF auction.auction_state # NotSoldYet THEN "AuctionAlreadyFinalized"
                   ELSE IF slot_time > auction.end THEN "BidTooLate"
                   ELSE "OnlyNotOwner"
             /\ auctions' = auctions
    ]_vars

\* the owner's bid, above the initial price and in time, is refused
C6_Witness ==
  /\ Was("bid")
  /\ HasAuction(auctions, last.parameter.auction_id)
  /\ last.sender = Account(Get(auctions, last.parameter.auction_id).owner)
  /\ last.amount > Get(auctions, last.parameter.auction_id).initial_price
  /\ last.result = "OnlyNotOwner"

\* ---------------------------------------------------------------------- C7
\* C7: a successful finalize of an auction without highest bidder issues one
\* token transfer of the full token_amount from the contract to the owner,
\* issues no currency transfer and leaves the auction NotSoldYet and the
\* registry unchanged.
C7_FinalizeWithoutBids ==
  [][ (/\ IsCall("finalize")
       /\ last'.result = "Ok"
       /\ Get(auctions, last'.parameter.auction_id).highest_bidder = None)
      => LET auction == Get(auctions, last'.parameter.auction_id)
         IN  /\ Len(last'.tokens) = 1
             /\ last'.tokens[1].from = SelfAddress
             /\ last'.tokens[1].to = auction.owner
             /\ last'.tokens[1].amount = auction.token_amount
             /\ last'.ccd = <<>>
             /\ auctions' = auctions
             /\ Get(auctions', last'.parameter.auction_id).auction_state = NotSoldYet
    ]_vars

\* an auction without bids was finalized after its deadline
C7_Witness ==
  /\ Succeeded("finalize")
  /\ Get(auctions, last.parameter.auction_id).highest_bidder = None
  /\ Get(auctions, last.parameter.auction_id).highest_bid = 0
  /\ Len(last.tokens) = 1

\* ---------------------------------------------------------------------- C8
\* the fields that identify an auction
Identity(auction) ==
  <<auction.item, auction.end, auction.owner, auction.initial_price,
    auction.token_contract, auction.token_id, auction.token_amount>>

\* C8: the k-th successful create_auction appends one auction at position k
\* and emits Register with auction_id = k; no step shortens the registry or
\* changes which auction a position denotes; get_auction, bid and finalize
\* fail with AuctionNotFound exactly when the id is not below the registry's
\* length.
C8_DenseStableIds ==
  [][ IF slot_time' = slot_time /\ last'.op = "create_auction" /\ last'.result = "Ok"
      THEN /\ auctions = SubSeq(auctions', 1, Len(auctions))
           /\ Len(auctions') = Len(auctions) + 1
           /\ last'.events = <<Register(Len(auctions))>>
           /\ Identity(Get(auctions', Len(auctions))) =
                <<last'.parameter.item, last'.parameter.end, last'.sender.addr,
                  last'.parameter.initial_price, last'.parameter.token_contract,
                  last'.parameter.token_id, last'.parameter.token_amount>>
      ELSE /\ Len(auctions') = Len(auctions)
           /\ \A i \in 1..Len(auctions) : Identity(auctions'[i]) = Identity(auctions[i])
           /\ (/\ slot_time' = slot_time
               /\ last'.op \in {"get_auction", "bid", "finalize"}
               /\ last'.parameter # Malformed)
              => (last'.result = "AuctionNotFound"
                    <=> last'.parameter.auction_id >= Len(auctions))
    ]_vars

\* the second auction was registered under id 1
C8_Witness ==
  /\ Succeeded("create_auction")
  /\ Len(auctions) = 2
  /\ last.events = <<Register(1)>>

\* ---------------------------------------------------------------------- C9
\* C9: a call whose token transfer failed does not return success (and a
\* finalize whose token transfer failed pays out nothing).
C9_TokenFailureSurfaces ==
  (last.tokens # <<>> /\ ~last.tokens[1].ok)
    => /\ last.result # "Ok"
       /\ \A i \in 1..Len(last.ccd) : ~last.ccd[i].ok

\* --------------------------------------------------------------------- C10
ValidationErrors(op) ==
  CASE op = "create_auction" -> {"OnlyAccount"}
    [] op = "bid" -> {"AuctionNotFound", "AuctionAlreadyFinalized", "BidTooLate",
                      "OnlyAccount", "OnlyNotOwner", "BidBelowCurrentBid"}
    [] op = "finalize" -> {"AuctionNotFound", "AuctionAlreadyFinalized", "AuctionStillActive"}
    [] op = "get_auction" -> {"AuctionNotFound"}
    [] OTHER -> {}

\* C10: a call that returns a validation error leaves the registry and the
\* commission recipient as they were and has issued no currency transfer,
\* no token transfer and no event.
C10_ValidationErrorsChangeNothing ==
  [][ (slot_time' = slot_time /\ last'.result \in ValidationErrors(last'.op))
      => /\ auctions' = auctions
         /\ commission_recipient' = commission_recipient
         /\ last'.ccd = <<>>
         /\ last'.tokens = <<>>
         /\ last'.events = <<>>
    ]_vars

\* a bid not above the standing bid was refused, with two auctions registered
C10_Witness ==
  /\ Was("bid")
  /\ last.result = "BidBelowCurrentBid"
  /\ Len(auctions) = 2
  /\ Get(auctions, last.parameter.auction_id).highest_bidder # None

\* --------------------------------------------------------------------- C11
\* C11: in every reachable state every auction has highest_bid = 0 exactly
\* when it has no highest bidder; a bid of amount 0 is never accepted.
C11_ZeroBidIffNoBidder ==
  /\ \A i \in 1..Len(auctions) :
       auctions[i].highest_bid = 0 <=> auctions[i].highest_bidder = None
  /\ (Was("bid") /\ last.amount = 0) => last.result # "Ok"

\* a bid of 0 on an auction with initial price 0 and no bids was refused
C11_Witness ==
  /\ Was("bid")
  /\ last.amount = 0
  /\ last.result = "BidBelowCurrentBid"
  /\ Get(auctions, last.parameter.auction_id).initial_price = 0
  /\ Get(auctions, last.parameter.auction_id).highest_bidder = None

\* --------------------------------------------------------------------- C12
\* C12: in every reachable state no auction has its owner as highest bidder.
C12_OwnerNeverHighestBidder ==
  \A i \in 1..Len(auctions) : auctions[i].highest_bidder # auctions[i].owner

\* an auction has a highest bidder and its owner's bid on it was refused
C12_Witness ==
  /\ Was("bid")
  /\ last.result = "OnlyNotOwner"
  /\ Get(auctions, last.parameter.auction_id).highest_bidder # None
  /\ last.sender.addr = Get(auctions, last.parameter.auction_id).owner

\* --------------------------------------------------------------------- C13
Max(a, b) == IF a >= b THEN a ELSE b

\* the error of the first check of bid that fails, "None" when none does
FirstFailedCheck(reg, t, sender, id, amount) ==
  IF id >= Len(reg) THEN "AuctionNotFound"
  ELSE IF Get(reg, id).auction_state # NotSoldYet THEN "AuctionAlreadyFinalized"
  ELSE IF t > Get(reg, id).end THEN "BidTooLate"
  ELSE IF sender.kind # "Account" THEN "OnlyAccount"
  ELSE IF sender.addr = Get(reg, id).owner THEN "OnlyNotOwner"
  ELSE IF amount <= Max(Get(reg, id).initial_price, Get(reg, id).highest_bid)
       THEN "BidBelowCurrentBid"
  ELSE None

\* C13: a bid returns the error of the first failing check in the order
\* AuctionNotFound, AuctionAlreadyFinalized, BidTooLate, OnlyAccount,
\* OnlyNotOwner, BidBelowCurrentBid, the last one being amount <=
\* max(initial_price, highest_bid); when none fails the bid is accepted,
\* unless the refund it issued failed and the call aborted;
\* BidBelowMinimumRaise is never returned.
C13_BidCheckOrder ==
  [][ IsCall("bid") =>
        LET failed == FirstFailedCheck(auctions, slot_time, last'.sender,
                                       last'.parameter.auction_id, last'.amount)
        IN  /\ failed # None => last'.result = failed
            /\ failed = None =>
                 /\ last'.result \in {"Ok", "Abort"}
                 /\ last'.result = "Abort" <=> (last'.ccd # <<>> /\ ~last'.ccd[1].ok)
            /\ last'.result # "BidBelowMinimumRaise"
    ]_vars

\* a bid equal to the standing bid was refused with BidBelowCurrentBid
C13_Witness ==
  /\ Was("bid")
  /\ last.result = "BidBelowCurrentBid"
  /\ last.amount > 0
  /\ last.amount = Get(auctions, last.parameter.auction_id).highest_bid
  /\ last.sender.kind = "Account"
  /\ last.sender.addr # Get(auctions, last.parameter.auction_id).owner

\* --------------------------------------------------------------------- C14
\* C14: no step changes the commission recipient or the item, end, owner,
\* initial_price and token fields of an auction; a bid changes at most the
\* highest_bid and highest_bidder of the auction it addresses; finalize,
\* onReceivingCIS2, view_auctions and get_auction change no auction.
C14_Frame ==
  [][ /\ commission_recipient' = commission_recipient
      /\ commission_recipient' = init_origin
      /\ auctions' # auctions =>
           \A i \in 1..Len(auctions) :
             /\ Identity(auctions'[i]) = Identity(auctions[i])
             /\ auctions'[i] # auctions[i] =>
                  /\ IsCall("bid")
                  /\ last'.result = "Ok"
                  /\ i = last'.parameter.auction_id + 1
                  /\ auctions'[i] = [auctions[i] EXCEPT !.highest_bid = last'.amount,
                                                        !.highest_bidder = last'.sender.addr]
      /\ (slot_time' = slot_time /\ last'.op \in {"finalize", "onReceivingCIS2",
                                                   "view_auctions", "get_auction"})
           => auctions' = auctions
    ]_vars

\* a bid was accepted on the second auction while the first one has a bid
C14_Witness ==
  /\ Succeeded("bid")
  /\ last.parameter.auction_id = 1
  /\ Len(auctions) = 2
  /\ auctions[1].highest_bidder # None

\* --------------------------------------------------------------------- C15
\* C15: create_auction called by an account issues one token transfer of
\* token_amount from the caller to the contract and, whether it succeeds or
\* not, returns Ok, appends one auction (NotSoldYet, highest_bid 0, no
\* bidder, owner = caller) and emits one Register event; called by a
\* contract it fails with OnlyAccount, issues no transfer and appends
\* nothing.
C15_CreateAuction ==
  [][ IsCall("create_auction") =>
        IF last'.sender.kind = "Account"
        THEN /\ last'.result = "Ok"
             /\ Len(last'.tokens) = 1
             /\ last'.tokens[1].from = last'.sender.addr
             /\ last'.tokens[1].to = SelfAddress
             /\ last'.tokens[1].amount = last'.parameter.token_amount
             /\ Len(last'.events) = 1
             /\ Len(auctions') = Len(auctions) + 1
             /\ SubSeq(auctions', 1, Len(auctions)) = auctions
             /\ LET new == auctions'[Len(auctions')]
                IN  /\ new.auction_state = NotSoldYet
                    /\ new.highest_bid = 0
                    /\ new.highest_bidder = None
                    /\ new.owner = last'.sender.addr
        ELSE /\ last'.result = "OnlyAccount"
             /\ last'.tokens = <<>>
             /\ last'.events = <<>>
             /\ auctions' = auctions
    ]_vars

\* an auction was registered although its token transfer failed
C15_Witness ==
  /\ Succeeded("create_auction")
  /\ Len(last.tokens) = 1
  /\ ~last.tokens[1].ok
  /\ auctions[Len(auctions)].owner = last.sender.addr

\* --------------------------------------------------------------------- C16
\* C16: in finalize the commission is the first currency transfer, issued
\* after the token transfer, and the owner is paid only after the commission
\* was; when a currency transfer fails finalize returns TransferFailed and
\* nothing persists: the registry and the ledger (balance, tokens held,
\* payouts) are as before the call.
C16_FailedPayoutRollsBack ==
  [][ IsCall("finalize") =>
        /\ last'.ccd # <<>> =>
             LET auction == Get(auctions, last'.parameter.auction_id)
             IN  /\ Len(last'.tokens) = 1
                 /\ last'.ccd[1].to = commission_recipient
                 /\ 10 * last'.ccd[1].amount <= auction.highest_bid
                 /\ auction.highest_bid < 10 * (last'.ccd[1].amount + 1)
                 /\ Len(last'.ccd) = 2 =>
                      /\ last'.ccd[1].ok
                      /\ last'.ccd[2].to = auction.owner
                      /\ last'.ccd[2].amount = auction.highest_bid - last'.ccd[1].amount
        /\ (\E k \in 1..Len(last'.ccd) : ~last'.ccd[k].ok) <=> last'.result = "TransferFailed"
        /\ last'.result = "TransferFailed" =>
             /\ auctions' = auctions
             /\ ledger' = ledger
    ]_vars

\* the owner's payout failed after the token and the commission went through:
\* the tokens are still held and nothing was paid
C16_Witness ==
  /\ Was("finalize")
  /\ last.result = "TransferFailed"
  /\ Len(last.ccd) = 2
  /\ last.ccd[1].ok /\ ~last.ccd[2].ok
  /\ last.tokens[1].ok
  /\ ledger.released[last.parameter.auction_id + 1] = 0
  /\ ledger.paid[last.parameter.auction_id + 1] = 0
  /\ ledger.balance > 0

\* --------------------------------------------------------------------- C17
\* C17: the currency paid out for an auction (refunds, commission, owner
\* proceeds) never exceeds the currency attached to its accepted bids.
C17_PaidWithinAttached ==
  ledger.tracked =>
    \A i \in 1..Len(ledger.paid) : ledger.paid[i] <= ledger.attached[i]

\* --------------------------------------------------------------------- C18
\* C18: the tokens transferred out for an auction never exceed the tokens
\* that its create_auction transferred in.
C18_ReleasedWithinEscrowed ==
  ledger.tracked =>
    \A i \in 1..Len(ledger.released) : ledger.released[i] <= ledger.escrowed[i]

\* --------------------------------------------------------------------- C19
\* C19: the slot time never decreases; once it is after the end of an
\* auction no step changes the record of that auction; a bid is accepted
\* only up to end and a finalize succeeds only after it.
C19_DeadlineFreeze ==
  [][ /\ slot_time' >= slot_time
      /\ \A i \in 1..Len(auctions) :
           slot_time > auctions[i].end => auctions'[i] = auctions[i]
      /\ (IsCall("bid") /\ last'.result = "Ok")
           => slot_time <= Get(auctions, last'.parameter.auction_id).end
      /\ (IsCall("finalize") /\ last'.result = "Ok")
           => slot_time > Get(auctions, last'.parameter.auction_id).end
    ]_vars

\* after the deadline a bid that would otherwise be accepted was refused
C19_Witness ==
  /\ Was("bid")
  /\ last.result = "BidTooLate"
  /\ last.sender.kind = "Account"
  /\ last.sender.addr # Get(auctions, last.parameter.auction_id).owner
  /\ last.amount > Get(auctions, last.parameter.auction_id).highest_bid
  /\ slot_time > Get(auctions, last.parameter.auction_id).end

\* --------------------------------------------------------------------- C20
\* the winning bid of auction id was paid out by the last call
PaidOut(id) ==
  /\ Succeeded("finalize")
  /\ last.parameter.auction_id = id
  /\ Len(last.ccd) = 2
  /\ last.ccd[1].ok /\ last.ccd[2].ok
  /\ last.ccd[1].to = commission_recipient
  /\ last.ccd[2].to = Get(auctions, id).owner
  /\ last.ccd[1].amount + last.ccd[2].amount = Get(auctions, id).highest_bid

\* C20: a finalize of an existing auction after its end succeeds whenever
\* no currency transfer it issues fails, whoever sends it; and, time
\* advancing and finalize being attempted with transfers that succeed, every
\* auction with a highest bidder eventually has its winning bid paid out.
C20_NoStuckFunds ==
  /\ [][ (/\ IsCall("finalize")
          /\ HasAuction(auctions, last'.parameter.auction_id)
          /\ slot_time > Get(auctions, last'.parameter.auction_id).end
          /\ \A k \in 1..Len(last'.ccd) : last'.ccd[k].ok)
         => last'.result = "Ok" ]_vars
  /\ \A id \in 0..(LedgerAuctions - 1) :
       (HasAuction(auctions, id) /\ Get(auctions, id).highest_bidder # None)
         ~> PaidOut(id)

\* the second auction's winning bid was paid out
C20_Witness ==
  /\ Len(auctions) = 2
  /\ PaidOut(1)
====
